---- MODULE Spec2Model ----
(***************************************************************************)
(* ThrustVectorController (WebApp/utils/ThrustVectorController.py): the    *)
(* rate-limited two-axis servo tracker, its setters and its two queries,   *)
(* together with the class-level singleton machinery (__new__/__init__).   *)
(*                                                                         *)
(* Numbers.  The program computes in floating point; the model computes    *)
(* the same expressions in exact fixed point.  Time is counted in ticks    *)
(* (TicksPerSecond to the second) and angles in angle units, RadUnits to   *)
(* the radian, with RadUnits = 180 * PiDen * TicksPerSecond and pi taken   *)
(* as PiNum / PiDen.  In these units max_refresh_speed * pi / 180 rad/s    *)
(* is exactly max_refresh_speed * PiNum angle units per tick, so that      *)
(* epsilon = max_speed * dt is computed without rounding.                  *)
(***************************************************************************)
EXTENDS Integers, Sequences, FiniteSets, TLC

VARIABLES
  instance,   \* ThrustVectorController._instance: 0 is None, else an object id
  objs,       \* the heap: objs[id] is the attribute record of object id
  refs,       \* the references the constructions returned, in call order
  last,       \* the call made last: [op, from, dt, arg], from the angles before it
  ret,        \* what the call made last returned
  mounted,    \* the offset moveToMotor was given last (the zero vector if never)
  remainx,    \* |pitch error at the last target change| - max_speed * time since
  remainy,    \* the same for yaw
  track       \* when on: the range of the targets commanded so far and the
              \* run of equal steps since the last updateSetpoint

vars == <<instance, objs, refs, last, ret, mounted, remainx, remainy, track>>

----------------------------------------------------------------------------
(* Bounds of the model *)

MaxRefreshSpeed == 1
MaxDt == 2
MaxAngle == 40
MaxConstructions == 2
MaxSteps == 3

(* Program constants and units *)

PiNum == 22
PiDen == 7
TicksPerSecond == 100
HalfTurnDegrees == 180
DefaultMaxRefreshSpeed == 270

RadUnits == HalfTurnDegrees * PiDen * TicksPerSecond
TrigScale == HalfTurnDegrees * PiDen * 10

RefreshSpeeds == (0..MaxRefreshSpeed) \cup {DefaultMaxRefreshSpeed}
Dts == (0 - 1)..MaxDt
Targets == {0 - 30, 0, 30}
Times == {0, 1}
Vectors == {<<0, 0, 0>>, <<1, 0, 1>>}
MotorManagers == {[burn_time |-> 1, curve |-> <<5, 0>>],
                  [burn_time |-> 2, curve |-> <<3, 7>>]}

----------------------------------------------------------------------------
(* numpy helpers *)

Abs(x) == IF x < 0 THEN 0 - x ELSE x

Sign(x) == IF x > 0 THEN 1 ELSE IF x < 0 THEN 0 - 1 ELSE 0

Cross(a, b) == <<a[2] * b[3] - a[3] * b[2],
                 a[3] * b[1] - a[1] * b[3],
                 a[1] * b[2] - a[2] * b[1]>>

Dot(a, b) == a[1] * b[1] + a[2] * b[2] + a[3] * b[3]

Sub(a, b) == <<a[1] - b[1], a[2] - b[2], a[3] - b[3]>>

Scale(k, a) == <<k * a[1], k * a[2], k * a[3]>>

(* An angle in angle units, in 1 / TrigScale radians (rounded toward zero) *)
Fine(a) == Sign(a) * ((Abs(a) * TrigScale) \div RadUnits)

(* np.sin and np.cos of an angle in angle units, scaled by TrigScale:
   x - x^3 / 6 and 1 - x^2 / 2 *)
Sin(a) ==
  LET x == Fine(a)
  IN x - Sign(x) * ((((x * x) \div TrigScale) * Abs(x)) \div (6 * TrigScale))

Cos(a) ==
  LET x == Fine(a)
  IN TrigScale - ((x * x) \div (2 * TrigScale))

RECURSIVE SqrtBetween(_, _, _)
SqrtBetween(n, lo, hi) ==
  IF lo >= hi THEN lo
  ELSE LET mid == (lo + hi + 1) \div 2
       IN IF mid * mid <= n THEN SqrtBetween(n, mid, hi)
          ELSE SqrtBetween(n, lo, mid - 1)

ISqrt(n) == SqrtBetween(n, 0, IF n < 2 * TrigScale THEN n ELSE 2 * TrigScale)

(* np.acos of c / TrigScale, in angle units: acos(1 - d) ~ sqrt(2 d) *)
Acos(c) == ISqrt(2 * (TrigScale - c) * TrigScale) * (RadUnits \div TrigScale)

(* MotorManager.getThrust(t): the thrust curve of the motor *)
GetThrust(mm, t) == IF t < Len(mm.curve) THEN mm.curve[t + 1] ELSE 0

----------------------------------------------------------------------------
(* The object and its methods, as functions of the attribute record *)

Blank == [initialized |-> FALSE, motor_manager |-> <<>>, burn_time |-> 0,
          thetax |-> 0, thetay |-> 0, targetx |-> 0, targety |-> 0,
          max_speed |-> 0, q |-> "unset", offset |-> <<0, 0, 0>>]

(* max_refresh_speed * np.pi / 180.0, in angle units per tick *)
DegreesPerSecondToRate(max_refresh_speed) == max_refresh_speed * PiNum

(* __new__: the object the call yields and the new value of _instance *)
NewObject(inst, heap) ==
  IF inst = 0
    THEN [id |-> Len(heap) + 1, heap |-> Append(heap, Blank)]
    ELSE [id |-> inst, heap |-> heap]

(* __init__ without the `initialized` guard *)
InitAlways(o, motor_manager, max_refresh_speed) ==
  [initialized |-> TRUE,
   motor_manager |-> motor_manager,
   burn_time |-> motor_manager.burn_time,
   thetax |-> 0, thetay |-> 0,
   targetx |-> 0, targety |-> 0,
   max_speed |-> max_refresh_speed * PiNum,
   q |-> "default",
   offset |-> <<0, 0, 0>>]

(* __init__ *)
InitObject(o, motor_manager, max_refresh_speed) ==
  IF ~o.initialized
    THEN [initialized |-> TRUE,
          motor_manager |-> motor_manager,
          burn_time |-> motor_manager.burn_time,
          thetax |-> 0, thetay |-> 0,
          targetx |-> 0, targety |-> 0,
          max_speed |-> DegreesPerSecondToRate(max_refresh_speed),
          q |-> "default",
          offset |-> <<0, 0, 0>>]
    ELSE o

(* step without the rate limit: both angles jump to their targets *)
StepNoRateLimit(o, dt) ==
  [o EXCEPT !.thetax = o.targetx, !.thetay = o.targety]

(* step without the snap to the target: the angle always moves by epsilon *)
StepNoSnap(o, dt) ==
  LET epsilon == o.max_speed * dt
  IN [o EXCEPT !.thetax = o.thetax + Sign(o.targetx - o.thetax) * epsilon,
               !.thetay = o.thetay + Sign(o.targety - o.thetay) * epsilon]

(* step whose second branch pair was never written: yaw is not updated *)
StepPitchOnly(o, dt) ==
  LET epsilon == o.max_speed * dt
      errorx == o.targetx - o.thetax
  IN [o EXCEPT !.thetax = IF Abs(errorx) > epsilon
                            THEN o.thetax + Sign(errorx) * epsilon
                            ELSE o.targetx]

(* step whose pitch branch snaps to the yaw target *)
StepSnapWrongTarget(o, dt) ==
  LET epsilon == o.max_speed * dt
      errorx == o.targetx - o.thetax
      errory == o.targety - o.thetay
  IN [o EXCEPT !.thetax = IF Abs(errorx) > epsilon
                            THEN o.thetax + Sign(errorx) * epsilon
                            ELSE o.targety,
               !.thetay = IF Abs(errory) > epsilon
                            THEN o.thetay + Sign(errory) * epsilon
                            ELSE o.targety]

(* the plain rate-limited integrator: always a full step, up when the error
   is not negative and down otherwise *)
StepChatter(o, dt) ==
  LET epsilon == o.max_speed * dt
      up(error) == IF error >= 0 THEN 1 ELSE 0 - 1
  IN [o EXCEPT !.thetax = o.thetax + up(o.targetx - o.thetax) * epsilon,
               !.thetay = o.thetay + up(o.targety - o.thetay) * epsilon]

(* step that takes an error within two steps' travel as reached *)
StepSnapEarly(o, dt) ==
  LET epsilon == o.max_speed * dt
      errorx == o.targetx - o.thetax
      errory == o.targety - o.thetay
  IN [o EXCEPT !.thetax = IF Abs(errorx) > 2 * epsilon
                            THEN o.thetax + Sign(errorx) * epsilon
                            ELSE o.targetx,
               !.thetay = IF Abs(errory) > 2 * epsilon
                            THEN o.thetay + Sign(errory) * epsilon
                            ELSE o.targety]

(* step *)
StepObject(o, dt) ==
  LET epsilon == o.max_speed * dt
      errorx == o.targetx - o.thetax
      errory == o.targety - o.thetay
      newx == IF Abs(errorx) > epsilon
                THEN o.thetax + Sign(errorx) * epsilon
                ELSE o.targetx
      newy == IF Abs(errory) > epsilon
                THEN o.thetay + Sign(errory) * epsilon
                ELSE o.targety
  IN [o EXCEPT !.thetax = newx, !.thetay = newy]

(* moveToMotor that also centres the servos *)
MoveAndRecenter(o, offset) ==
  [o EXCEPT !.offset = offset, !.thetax = 0, !.thetay = 0]

(* moveToMotor *)
MoveObject(o, offset) == [o EXCEPT !.offset = offset]

(* updateSetpoint that also drives the servos onto the new targets *)
SetpointAndForce(o, targetx, targety) ==
  [o EXCEPT !.targetx = targetx, !.targety = targety,
            !.thetax = targetx, !.thetay = targety]

(* updateSetpoint *)
SetpointObject(o, targetx, targety) ==
  [o EXCEPT !.targetx = targetx, !.targety = targety]

(* forceToTarget that forgets the yaw servo *)
ForcePitchOnly(o) == [o EXCEPT !.thetax = o.targetx]

(* forceToTarget with the two targets exchanged *)
ForceSwapped(o) == [o EXCEPT !.thetax = o.targety, !.thetay = o.targetx]

(* forceToTarget *)
ForceObject(o) == [o EXCEPT !.thetax = o.targetx, !.thetay = o.targety]

(* getThrustVector computing the lever arm in place (R = self.offset;
   R -= cg), which writes the mount offset *)
ThrustVectorInPlace(o, t, cg) == [o EXCEPT !.offset = Sub(o.offset, cg)]

(* getThrustVector with the lever arm taken from the mount to the centre
   of mass (R = cg - self.offset) *)
ThrustVectorLeverReversed(o, t, cg) ==
  LET dir == <<Sin(o.thetay),
               0 - ((Sin(o.thetax) * Cos(o.thetay)) \div TrigScale),
               (Cos(o.thetax) * Cos(o.thetay)) \div TrigScale>>
      F == Scale(GetThrust(o.motor_manager, t), dir)
      R == Sub(cg, o.offset)
  IN [kind |-> "thrust", F |-> F, tau |-> Cross(R, F)]

(* getThrustVector: the returned pair and the object after the call *)
ThrustVectorOf(o, t, cg) ==
  LET dir == <<Sin(o.thetay),
               0 - ((Sin(o.thetax) * Cos(o.thetay)) \div TrigScale),
               (Cos(o.thetax) * Cos(o.thetay)) \div TrigScale>>
      F == Scale(GetThrust(o.motor_manager, t), dir)
      R == Sub(o.offset, cg)
  IN [kind |-> "thrust", F |-> F, tau |-> Cross(R, F)]

ThrustVectorObject(o, t, cg) == o

(* getAttitude that passes the reference axis when the cross product is
   the zero vector *)
AttitudeWithFallback(o) ==
  LET z == <<0, 0, 0 - TrigScale>>
      target == <<0 - Sin(o.thetay),
                  (Sin(o.thetax) * Cos(o.thetay)) \div TrigScale,
                  0 - ((Cos(o.thetax) * Cos(o.thetay)) \div TrigScale)>>
      angle == Acos(Dot(target, z) \div TrigScale)
      cross == Cross(z, target)
  IN [kind |-> "attitude", angle |-> angle,
      axis |-> IF cross = <<0, 0, 0>> THEN z ELSE cross]

(* getAttitude *)
AttitudeOf(o) ==
  LET z == <<0, 0, 0 - TrigScale>>
      target == <<0 - Sin(o.thetay),
                  (Sin(o.thetax) * Cos(o.thetay)) \div TrigScale,
                  0 - ((Cos(o.thetax) * Cos(o.thetay)) \div TrigScale)>>
      angle == Acos(Dot(target, z) \div TrigScale)
      cross == Cross(z, target)
  IN [kind |-> "attitude", angle |-> angle, axis |-> cross]

AttitudeObject(o) == o

----------------------------------------------------------------------------
(* History of the tracking error, for the settling time *)

(* what is left of the error at the last target change after `dt` more
   ticks at full rate: Exceeded once the elapsed time exceeds
   |error| / max_speed, Void once the run of steps with dt >= 0 has been
   broken (a step with a negative dt, or forceToTarget) *)
Exceeded == 0 - 1
Void == 0 - 2

Remain(left, rate, dt) ==
  IF left = Void \/ dt < 0 THEN Void
  ELSE IF left = Exceeded THEN Exceeded
  ELSE IF rate * dt > left THEN Exceeded
  ELSE left - rate * dt

NoReturn == [kind |-> "none"]

(* History of the commanded targets and of the steps taken toward them.
   lox..hix and loy..hiy span 0 and the targets updateSetpoint was given;
   start holds the angles at the last updateSetpoint, k the number of steps
   taken since, all with the same dt and max_speed * dt > 0 (counted up to
   MaxSteps), or Broken when some other step or a forceToTarget came
   between.  Nothing is recorded while track.on is FALSE. *)
Broken == 0 - 1

Min(a, b) == IF a < b THEN a ELSE b

Max(a, b) == IF a > b THEN a ELSE b

TrackOff == [on |-> FALSE, lox |-> 0, hix |-> 0, loy |-> 0, hiy |-> 0,
             start |-> <<0, 0>>, dt |-> 0, k |-> 0]

TrackStart == [TrackOff EXCEPT !.on = TRUE]

TrackSetpoint(tr, angles, targetx, targety) ==
  IF ~tr.on THEN tr
  ELSE [tr EXCEPT !.lox = Min(tr.lox, targetx), !.hix = Max(tr.hix, targetx),
                  !.loy = Min(tr.loy, targety), !.hiy = Max(tr.hiy, targety),
                  !.start = angles, !.dt = 0, !.k = 0]

TrackStep(tr, rate, dt) ==
  IF ~tr.on \/ tr.k = Broken THEN tr
  ELSE IF rate * dt <= 0 THEN [tr EXCEPT !.dt = 0, !.k = Broken]
  ELSE IF tr.k = 0 THEN [tr EXCEPT !.dt = dt, !.k = 1]
  ELSE IF dt = tr.dt THEN [tr EXCEPT !.k = Min(tr.k + 1, MaxSteps)]
  ELSE [tr EXCEPT !.dt = 0, !.k = Broken]

TrackForce(tr) ==
  IF ~tr.on THEN tr ELSE [tr EXCEPT !.dt = 0, !.k = Broken]

----------------------------------------------------------------------------
Init ==
  /\ instance = 0
  /\ objs = <<>>
  /\ refs = <<>>
  /\ last = [op |-> "import", from |-> <<>>, dt |-> 0, arg |-> <<>>]
  /\ ret = NoReturn
  /\ mounted = <<0, 0, 0>>
  /\ remainx = 0
  /\ remainy = 0
  /\ track = TrackOff

Obj(r) == objs[refs[r]]

Angles(o) == <<o.thetax, o.thetay>>

InRange(o) == Abs(o.thetax) <= MaxAngle /\ Abs(o.thetay) <= MaxAngle

(* ThrustVectorController(motor_manager, max_refresh_speed) *)
ConstructWith(mm, speed) ==
    /\ Len(refs) < MaxConstructions
    /\ LET made == NewObject(instance, objs)
       IN /\ instance' = made.id
          /\ objs' = [made.heap EXCEPT
                        ![made.id] = InitObject(made.heap[made.id], mm, speed)]
          /\ refs' = Append(refs, made.id)
    /\ last' = [op |-> "construct", from |-> <<>>, dt |-> 0,
                arg |-> <<mm, speed>>]
    /\ ret' = NoReturn
    /\ UNCHANGED <<mounted, remainx, remainy, track>>

StepOn(r, dt) ==
    /\ InRange(StepObject(Obj(r), dt))
    /\ objs' = [objs EXCEPT ![refs[r]] = StepObject(Obj(r), dt)]
    /\ last' = [op |-> "step", from |-> Angles(Obj(r)), dt |-> dt, arg |-> <<>>]
    /\ ret' = NoReturn
    /\ remainx' = Remain(remainx, Obj(r).max_speed, dt)
    /\ remainy' = Remain(remainy, Obj(r).max_speed, dt)
    /\ track' = TrackStep(track, Obj(r).max_speed, dt)
    /\ UNCHANGED <<instance, refs, mounted>>

MoveToMotorOn(r, offset) ==
    /\ objs' = [objs EXCEPT ![refs[r]] = MoveObject(Obj(r), offset)]
    /\ last' = [op |-> "moveToMotor", from |-> Angles(Obj(r)), dt |-> 0,
                arg |-> <<offset>>]
    /\ ret' = NoReturn
    /\ mounted' = offset
    /\ UNCHANGED <<instance, refs, remainx, remainy, track>>

UpdateSetpointOn(r, targetx, targety) ==
    /\ objs' = [objs EXCEPT ![refs[r]] = SetpointObject(Obj(r), targetx, targety)]
    /\ last' = [op |-> "updateSetpoint", from |-> Angles(Obj(r)), dt |-> 0,
                arg |-> <<targetx, targety>>]
    /\ ret' = NoReturn
    /\ remainx' = Abs(targetx - Obj(r).thetax)
    /\ remainy' = Abs(targety - Obj(r).thetay)
    /\ track' = TrackSetpoint(track, Angles(Obj(r)), targetx, targety)
    /\ UNCHANGED <<instance, refs, mounted>>

ForceToTargetOn(r) ==
    /\ objs' = [objs EXCEPT ![refs[r]] = ForceObject(Obj(r))]
    /\ last' = [op |-> "forceToTarget", from |-> Angles(Obj(r)), dt |-> 0, arg |-> <<>>]
    /\ ret' = NoReturn
    /\ remainx' = Void
    /\ remainy' = Void
    /\ track' = TrackForce(track)
    /\ UNCHANGED <<instance, refs, mounted>>

GetThrustVectorOn(r, t, cg) ==
    /\ ret' = ThrustVectorOf(Obj(r), t, cg)
    /\ objs' = [objs EXCEPT ![refs[r]] = ThrustVectorObject(Obj(r), t, cg)]
    /\ last' = [op |-> "getThrustVector", from |-> Angles(Obj(r)), dt |-> 0,
                arg |-> <<t, cg>>]
    /\ UNCHANGED <<instance, refs, mounted, remainx, remainy, track>>

GetAttitudeOn(r) ==
    /\ ret' = AttitudeOf(Obj(r))
    /\ objs' = [objs EXCEPT ![refs[r]] = AttitudeObject(Obj(r))]
    /\ last' = [op |-> "getAttitude", from |-> Angles(Obj(r)), dt |-> 0, arg |-> <<>>]
    /\ UNCHANGED <<instance, refs, mounted, remainx, remainy, track>>

Construct ==
  \E mm \in MotorManagers, speed \in RefreshSpeeds : ConstructWith(mm, speed)

Step ==
  \E r \in DOMAIN refs, dt \in Dts : StepOn(r, dt)

MoveToMotor ==
  \E r \in DOMAIN refs, offset \in Vectors : MoveToMotorOn(r, offset)

UpdateSetpoint ==
  \E r \in DOMAIN refs, targetx \in Targets, targety \in Targets :
    UpdateSetpointOn(r, targetx, targety)

ForceToTarget ==
  \E r \in DOMAIN refs : ForceToTargetOn(r)

GetThrustVector ==
  \E r \in DOMAIN refs, t \in Times, cg \in Vectors :
    GetThrustVectorOn(r, t, cg)

GetAttitude ==
  \E r \in DOMAIN refs : GetAttitudeOn(r)

Next ==
  \/ Construct
  \/ Step
  \/ MoveToMotor
  \/ UpdateSetpoint
  \/ ForceToTarget
  \/ GetThrustVector
  \/ GetAttitude

Spec == Init /\ [][Next]_vars

(* The writing calls alone, with every step forward in time and the
   history of targets and steps recorded *)
InitTracked ==
  /\ instance = 0
  /\ objs = <<>>
  /\ refs = <<>>
  /\ last = [op |-> "import", from |-> <<>>, dt |-> 0, arg |-> <<>>]
  /\ ret = NoReturn
  /\ mounted = <<0, 0, 0>>
  /\ remainx = 0
  /\ remainy = 0
  /\ track = TrackStart

ConstructUnfuelled ==
  \E speed \in RefreshSpeeds :
    ConstructWith([burn_time |-> 1, curve |-> <<5, 0>>], speed)

StepForward ==
  \E r \in DOMAIN refs, dt \in 0..MaxDt : StepOn(r, dt)

NextTracked ==
  \/ ConstructUnfuelled
  \/ StepForward
  \/ MoveToMotor
  \/ UpdateSetpoint
  \/ ForceToTarget

SpecTracked == InitTracked /\ [][NextTracked]_vars

----------------------------------------------------------------------------
(* Properties *)

(* the controller: the object _instance holds *)
Cur == objs[instance]

Constructed == instance # 0

StepCalled == last.op = "step" /\ last.dt >= 0

(* C1. Rate-limit bound: one step(dt) with dt >= 0 changes pitch and yaw by
   at most max_speed * dt each, whatever the angles and targets. *)
RateLimitBound ==
  [][(last'.op = "step" /\ last'.dt >= 0) =>
       \A i \in DOMAIN objs :
         /\ Abs(objs'[i].thetax - objs[i].thetax) <= objs[i].max_speed * last'.dt
         /\ Abs(objs'[i].thetay - objs[i].thetay) <= objs[i].max_speed * last'.dt]_vars

(* a step that moved pitch by the whole of max_speed * dt > 0 *)
RateLimitBoundWitness ==
  /\ Constructed /\ StepCalled
  /\ Cur.max_speed * last.dt > 0
  /\ Abs(Cur.thetax - last.from[1]) = Cur.max_speed * last.dt
  /\ Cur.thetax # Cur.targetx

(* C2. No overshoot: a step(dt) with dt >= 0 leaves |target - angle| no larger
   than before and never moves the angle to the other side of its target. *)
NoOvershoot ==
  [][(last'.op = "step" /\ last'.dt >= 0) =>
       \A i \in DOMAIN objs :
         /\ objs'[i].targetx = objs[i].targetx
         /\ objs'[i].targety = objs[i].targety
         /\ Abs(objs[i].targetx - objs'[i].thetax) <= Abs(objs[i].targetx - objs[i].thetax)
         /\ Abs(objs[i].targety - objs'[i].thetay) <= Abs(objs[i].targety - objs[i].thetay)
         /\ (objs[i].targetx - objs'[i].thetax) * (objs[i].targetx - objs[i].thetax) >= 0
         /\ (objs[i].targety - objs'[i].thetay) * (objs[i].targety - objs[i].thetay) >= 0]_vars

(* a step whose travel max_speed * dt was more than the pitch error left *)
NoOvershootWitness ==
  /\ Constructed /\ StepCalled
  /\ last.from[1] # Cur.targetx
  /\ Abs(Cur.targetx - last.from[1]) < Cur.max_speed * last.dt
  /\ Cur.thetax = Cur.targetx

(* C3. Settling: once the time stepped (dt >= 0 each) since the last
   updateSetpoint exceeds |error at that updateSetpoint| / max_speed, the
   angle equals its target, and stays equal while the steps go on. *)
SettledAfterTravelTime ==
  Constructed =>
    /\ (remainx = Exceeded => Cur.thetax = Cur.targetx)
    /\ (remainy = Exceeded => Cur.thetay = Cur.targety)

(* the step that took pitch past its travel time while yaw is still under way *)
SettledAfterTravelTimeWitness ==
  /\ Constructed /\ StepCalled
  /\ remainx = Exceeded /\ last.from[1] # Cur.targetx /\ Cur.thetax = Cur.targetx
  /\ remainy > 0 /\ Cur.thetay # Cur.targety

(* C4. Exact settling: a step(dt) with dt >= 0 puts the angle on its target
   when |error| <= max_speed * dt, and otherwise moves it by max_speed * dt
   in the direction of the error. *)
ExactSettling ==
  [][(last'.op = "step" /\ last'.dt >= 0) =>
       LET o == objs[instance]
           limit == o.max_speed * last'.dt
           after(current, target) ==
             IF Abs(target - current) <= limit
               THEN target
               ELSE current + Sign(target - current) * limit
       IN /\ objs'[instance].thetax = after(o.thetax, o.targetx)
          /\ objs'[instance].thetay = after(o.thetay, o.targety)]_vars

(* a step that put pitch on its target and moved yaw at the full rate *)
ExactSettlingWitness ==
  /\ Constructed /\ StepCalled
  /\ last.from[1] # Cur.targetx
  /\ Abs(Cur.targetx - last.from[1]) <= Cur.max_speed * last.dt
  /\ Cur.thetax = Cur.targetx
  /\ Abs(Cur.targety - last.from[2]) > Cur.max_speed * last.dt
  /\ Cur.thetay = last.from[2] + Sign(Cur.targety - last.from[2]) * Cur.max_speed * last.dt

(* C5. Idempotence at rest: with both angles on their targets, a step(dt)
   with dt >= 0 changes neither angle. *)
IdempotentAtRest ==
  [][(last'.op = "step" /\ last'.dt >= 0) =>
       \A i \in DOMAIN objs :
         (objs[i].thetax = objs[i].targetx /\ objs[i].thetay = objs[i].targety) =>
           (objs'[i].thetax = objs[i].thetax /\ objs'[i].thetay = objs[i].thetay)]_vars

(* a step with max_speed * dt > 0 taken at rest away from the origin *)
IdempotentAtRestWitness ==
  /\ Constructed /\ StepCalled
  /\ Cur.max_speed * last.dt > 0
  /\ last.from = <<Cur.targetx, Cur.targety>>
  /\ Cur.targetx # 0 /\ Cur.targety # 0
  /\ Angles(Cur) = last.from

(* C6. A step with a negative dt is rejected as an invalid argument and
   changes neither angle. *)
NegativeDtRejected ==
  [][(last'.op = "step" /\ last'.dt < 0) =>
       /\ ret'.kind = "invalid argument"
       /\ \A i \in DOMAIN objs : Angles(objs'[i]) = Angles(objs[i])]_vars

(* the calls of the methods that write, on the reference r *)
WritesOn(r) ==
  \/ \E dt \in Dts : StepOn(r, dt)
  \/ \E offset \in Vectors : MoveToMotorOn(r, offset)
  \/ \E targetx \in Targets, targety \in Targets :
       UpdateSetpointOn(r, targetx, targety)
  \/ ForceToTargetOn(r)

(* C7. Instance independence: a step, updateSetpoint, moveToMotor or
   forceToTarget on the controller one construction returned leaves the
   controller another construction returned unchanged. *)
InstancesIndependent ==
  [][\A r1 \in DOMAIN refs, r2 \in DOMAIN refs :
       (r1 # r2 /\ WritesOn(r1)) => objs'[refs[r2]] = objs[refs[r2]]]_vars

(* C8. updateSetpoint writes the two targets, as given, and nothing else;
   the step that follows moves the angles toward those targets. *)
SetpointWritesTargetsOnly ==
  [][/\ last'.op = "updateSetpoint" =>
          /\ instance' = instance /\ refs' = refs
          /\ DOMAIN objs' = DOMAIN objs
          /\ \A i \in DOMAIN objs :
                \/ objs'[i] = objs[i]
                \/ objs'[i] = [objs[i] EXCEPT !.targetx = last'.arg[1],
                                              !.targety = last'.arg[2]]
          /\ Cur' = [Cur EXCEPT !.targetx = last'.arg[1],
                                !.targety = last'.arg[2]]
     /\ (last.op = "updateSetpoint" /\ last'.op = "step" /\ last'.dt >= 0) =>
          LET travel == Cur.max_speed * last'.dt
              toward(before, after, target) ==
                /\ Abs(target - after) <= Abs(target - before)
                /\ (travel > 0 /\ before # target) =>
                      Abs(target - after) < Abs(target - before)
          IN /\ toward(Cur.thetax, Cur'.thetax, last.arg[1])
             /\ toward(Cur.thetay, Cur'.thetay, last.arg[2])]_vars

(* an updateSetpoint made while the servos are away from the origin and
   from the new targets *)
SetpointWritesTargetsOnlyWitness ==
  /\ Constructed /\ last.op = "updateSetpoint"
  /\ <<Cur.targetx, Cur.targety>> = last.arg
  /\ Angles(Cur) = last.from
  /\ Cur.thetax # 0 /\ Cur.thetax # Cur.targetx
  /\ Cur.thetay # 0 /\ Cur.thetay # Cur.targety

(* C9. getThrustVector and getAttitude write nothing, and getThrustVector
   called again with the same arguments returns the same pair. *)
QueriesArePure ==
  [][/\ last'.op \in {"getThrustVector", "getAttitude"} =>
          /\ objs' = objs /\ instance' = instance /\ refs' = refs
     /\ (/\ last.op = "getThrustVector" /\ last'.op = "getThrustVector"
         /\ last'.arg = last.arg) => ret' = ret]_vars

(* a getThrustVector that returned a thrust with a torque *)
QueriesArePureWitness ==
  /\ Constructed /\ last.op = "getThrustVector"
  /\ ret.kind = "thrust"
  /\ ret.F[3] > 0
  /\ ret.tau # <<0, 0, 0>>
  /\ Cur.offset # <<0, 0, 0>>

(* C10. forceToTarget puts both angles on their targets whatever the error,
   writes nothing else, and a step with dt >= 0 right after it moves
   neither angle. *)
ForceToTargetJumps ==
  [][/\ last'.op = "forceToTarget" =>
          /\ instance' = instance /\ refs' = refs
          /\ DOMAIN objs' = DOMAIN objs
          /\ \A i \in DOMAIN objs :
                \/ objs'[i] = objs[i]
                \/ objs'[i] = [objs[i] EXCEPT !.thetax = objs[i].targetx,
                                              !.thetay = objs[i].targety]
          /\ Cur' = [Cur EXCEPT !.thetax = Cur.targetx, !.thetay = Cur.targety]
     /\ (last.op = "forceToTarget" /\ last'.op = "step" /\ last'.dt >= 0) =>
          Angles(Cur') = Angles(Cur)]_vars

(* a forceToTarget that moved both angles further than a step of MaxDt can *)
ForceToTargetJumpsWitness ==
  /\ Constructed /\ last.op = "forceToTarget"
  /\ Abs(Cur.thetax - last.from[1]) > Cur.max_speed * MaxDt
  /\ Abs(Cur.thetay - last.from[2]) > Cur.max_speed * MaxDt
  /\ Cur.max_speed > 0
  /\ Angles(Cur) = <<Cur.targetx, Cur.targety>>

(* C11. At zero deflection getThrustVector(t, cg) returns the force
   (0, 0, getThrust(t)) and the torque (offset - cg) x force, with the offset
   moveToMotor was given last (the zero vector if it never was); the torque
   is zero when the offset is cg.  Forces are scaled by TrigScale. *)
ZeroDeflectionThrust ==
  (Constructed /\ last.op = "getThrustVector" /\ Angles(Cur) = <<0, 0>>) =>
    LET t == last.arg[1]
        cg == last.arg[2]
        force == <<0, 0, GetThrust(Cur.motor_manager, t) * TrigScale>>
    IN /\ ret.F = force
       /\ ret.tau = Cross(Sub(mounted, cg), force)
       /\ (mounted = cg => ret.tau = <<0, 0, 0>>)

(* a getThrustVector at zero deflection, after a moveToMotor, with thrust
   and a lever arm that give a torque *)
ZeroDeflectionThrustWitness ==
  /\ Constructed /\ last.op = "getThrustVector" /\ Angles(Cur) = <<0, 0>>
  /\ mounted # <<0, 0, 0>>
  /\ mounted # last.arg[2]
  /\ ret.F[3] > 0
  /\ ret.tau # <<0, 0, 0>>

(* C12. max_speed is strictly positive in every state of a constructed
   controller, whatever max_refresh_speed the constructor was given. *)
MaxSpeedPositive ==
  Constructed => Cur.max_speed > 0

(* C14. Re-construction guard: a construction after the first returns the
   first instance and leaves every attribute of it as it was, whatever the
   arguments. *)
ReconstructionKeepsState ==
  [][(last'.op = "construct" /\ Constructed) =>
       /\ instance' = instance
       /\ refs' = Append(refs, instance)
       /\ objs' = objs]_vars

(* a second construction with another motor manager and another rate, made
   when the servos, the targets and the mount had been moved *)
ReconstructionKeepsStateWitness ==
  /\ Constructed /\ last.op = "construct" /\ Len(refs) > 1
  /\ last.arg[1] # Cur.motor_manager
  /\ last.arg[2] * PiNum # Cur.max_speed
  /\ Cur.thetax # 0 /\ Cur.targety # 0
  /\ Cur.offset # <<0, 0, 0>>

(* C15. step writes the two angles only, moveToMotor writes the offset only
   (to its argument), and no call changes max_speed once the controller is
   constructed. *)
StepAndMoveFrames ==
  [][/\ last'.op = "step" =>
          /\ instance' = instance /\ refs' = refs
          /\ DOMAIN objs' = DOMAIN objs
          /\ \A i \in DOMAIN objs :
                objs'[i] = [objs[i] EXCEPT !.thetax = objs'[i].thetax,
                                          !.thetay = objs'[i].thetay]
     /\ last'.op = "moveToMotor" =>
          /\ instance' = instance /\ refs' = refs
          /\ DOMAIN objs' = DOMAIN objs
          /\ \A i \in DOMAIN objs :
                objs'[i] \in {objs[i], [objs[i] EXCEPT !.offset = last'.arg[1]]}
          /\ Cur'.offset = last'.arg[1]
     /\ Constructed =>
          \A i \in DOMAIN objs : objs'[i].max_speed = objs[i].max_speed]_vars

(* a step that moved both angles of a controller whose targets and mount
   are not the initial ones *)
StepAndMoveFramesWitness ==
  /\ Constructed /\ last.op = "step"
  /\ Cur.thetax # last.from[1] /\ Cur.thetay # last.from[2]
  /\ Cur.targetx # 0 /\ Cur.targety # 0
  /\ Cur.offset # <<0, 0, 0>>
  /\ Cur.max_speed > 0

(* C16. Zero-deflection attitude: with both angles 0, getAttitude hands the
   rotation constructor the angle 0 and the zero vector as the axis. *)
ZeroDeflectionAttitude ==
  (Constructed /\ last.op = "getAttitude" /\ Angles(Cur) = <<0, 0>>) =>
    ret = [kind |-> "attitude", angle |-> 0, axis |-> <<0, 0, 0>>]

(* a getAttitude at zero deflection *)
ZeroDeflectionAttitudeWitness ==
  /\ Constructed /\ last.op = "getAttitude" /\ Angles(Cur) = <<0, 0>>
  /\ ret.kind = "attitude"
  /\ ret.angle = 0

(* the least n with n * b >= a, for a >= 0 and b > 0 *)
Ceil(a, b) == (a + b - 1) \div b

(* C13. Steps to settle: with the target fixed and every step of the same
   dt, L = max_speed * dt > 0, an axis that started with the error E # 0 is
   at start + sign(E) * k * L, short of the target, after each of the first
   ceil(|E| / L) - 1 steps, and on the target after step ceil(|E| / L). *)
StepsToSettle ==
  (Constructed /\ track.on /\ track.k >= 1) =>
    LET L == Cur.max_speed * track.dt
        axis(start, angle, target) ==
          LET E == target - start
              n == Ceil(Abs(E), L)
          IN E # 0 =>
               IF track.k < n
                 THEN /\ angle # target
                      /\ track.k < MaxSteps => angle = start + Sign(E) * track.k * L
                 ELSE angle = target
    IN /\ axis(track.start[1], Cur.thetax, Cur.targetx)
       /\ axis(track.start[2], Cur.thetay, Cur.targety)

(* pitch reaching its target on the third of three equal steps, from two
   full steps short of it *)
StepsToSettleWitness ==
  /\ Constructed /\ track.on /\ track.k = 3 /\ last.op = "step"
  /\ LET L == Cur.max_speed * track.dt
         E == Cur.targetx - track.start[1]
     IN /\ E # 0
        /\ Ceil(Abs(E), L) = 3
        /\ last.from[1] = track.start[1] + Sign(E) * 2 * L
        /\ last.from[1] # Cur.targetx
        /\ Cur.thetax = Cur.targetx

(* C17. Range invariant: from a fresh controller, under steps with dt >= 0,
   updateSetpoint, forceToTarget and moveToMotor in any order, each angle
   lies between the least and the greatest of 0 and the targets commanded
   for its axis so far. *)
InsideCommandedRange ==
  (Constructed /\ track.on) =>
    /\ track.lox <= Cur.thetax /\ Cur.thetax <= track.hix
    /\ track.loy <= Cur.thetay /\ Cur.thetay <= track.hiy

(* a step that left pitch strictly inside the range, off its target and off
   0, after targets on both sides of 0 had been commanded on both axes *)
InsideCommandedRangeWitness ==
  /\ Constructed /\ track.on /\ last.op = "step"
  /\ track.lox < 0 /\ track.hix > 0 /\ track.loy < 0 /\ track.hiy > 0
  /\ track.lox < Cur.thetax /\ Cur.thetax < track.hix
  /\ Cur.thetax # 0 /\ Cur.thetax # Cur.targetx
  /\ Cur.thetax # last.from[1]

====
